---------------------------- MODULE Spec2Model ----------------------------
(***************************************************************************)
(* gedcom-2-json: src/main.rs (main) and src/lib.rs (Config::new, run,     *)
(* parse, build_tree).  Text is a sequence of one-character strings.  The  *)
(* records tokenized from the text live in all_nodes and are referred to   *)
(* by their index 1..Len(all_nodes); index 0 is dummy_root.  The children  *)
(* field (RefCell<Vec<&Node>>) of every node is the function children.     *)
(***************************************************************************)
EXTENDS Integers, Sequences, FiniteSets, TLC

VARIABLES pc, args, config, fs, contents, pos, all_nodes, children,
          stack, iter, node, popped, serialized, stdout, exitCode

vars == <<pc, args, config, fs, contents, pos, all_nodes, children,
          stack, iter, node, popped, serialized, stdout, exitCode>>

-----------------------------------------------------------------------------
(* Characters and character classes of the regular expression.             *)

DigitChars == {"0", "1", "2", "3", "4", "5", "6", "7", "8", "9"}

NonZeroDigitChars == DigitChars \ {"0"}

LetterChars ==
  {"A", "B", "C", "D", "E", "F", "G", "H", "I", "J", "K", "L", "M",
   "N", "O", "P", "Q", "R", "S", "T", "U", "V", "W", "X", "Y", "Z",
   "a", "b", "c", "d", "e", "f", "g", "h", "i", "j", "k", "l", "m",
   "n", "o", "p", "q", "r", "s", "t", "u", "v", "w", "x", "y", "z"}

\* [A-Za-z0-9_]
WordChars == LetterChars \cup DigitChars \cup {"_"}

\* \s and the characters str::trim removes
SpaceChars == {" ", "\t", "\n", "\r", "\f"}

LineEndChars == {"\n", "\r"}

DigitVal(c) ==
  CASE c = "0" -> 0 [] c = "1" -> 1 [] c = "2" -> 2 [] c = "3" -> 3
    [] c = "4" -> 4 [] c = "5" -> 5 [] c = "6" -> 6 [] c = "7" -> 7
    [] c = "8" -> 8 [] c = "9" -> 9

DigitChar(d) ==
  CASE d = 0 -> "0" [] d = 1 -> "1" [] d = 2 -> "2" [] d = 3 -> "3"
    [] d = 4 -> "4" [] d = 5 -> "5" [] d = 6 -> "6" [] d = 7 -> "7"
    [] d = 8 -> "8" [] d = 9 -> "9"

\* t[i..j-1]
Sub(t, i, j) == SubSeq(t, i, j - 1)

CharAt(t, i) == IF i >= 1 /\ i <= Len(t) THEN t[i] ELSE "EOF"

\* the position after the longest run of characters of S that starts at i
\* (a greedy  [S]*  at i)
SpanEnd(t, i, S) ==
  CHOOSE j \in i..(Len(t) + 1) :
    /\ \A k \in i..(j - 1) : t[k] \in S
    /\ (j = Len(t) + 1 \/ t[j] \notin S)

\* the position after the longest run of characters outside S that starts
\* at i (a greedy  [^S]*  at i)
SpanEndNot(t, i, S) ==
  CHOOSE j \in i..(Len(t) + 1) :
    /\ \A k \in i..(j - 1) : t[k] \notin S
    /\ (j = Len(t) + 1 \/ t[j] \in S)

NoMatch == [ok |-> FALSE, at |-> 0, end |-> 0, level |-> <<>>,
            pointer |-> <<>>, tag |-> <<>>, data |-> <<>>]

\* group 1, (0|[1-9]+[0-9]*), at a, followed by the literal space: the
\* position after the level token, or 0.  The alternative "0" is tried
\* first; the second needs a first digit in 1-9 and runs to the end of the
\* digits because the next character has to be the space.
LevelEnd(t, a) ==
  IF CharAt(t, a) = "0"
    THEN (IF CharAt(t, a + 1) = " " THEN a + 1 ELSE 0)
    ELSE IF CharAt(t, a) \in NonZeroDigitChars
      THEN (LET e == SpanEnd(t, a, DigitChars)
            IN IF CharAt(t, e) = " " THEN e ELSE 0)
      ELSE 0

\* group 2, (@[^@]+@ |\b), at b: the position after the group, or 0.  The
\* first alternative spans from the @ at b to the next @ and the space
\* behind it, which the group captures too; \b at b (behind the literal
\* space) holds exactly when a word character follows, and captures nothing.
PointerEnd(t, b) ==
  IF CharAt(t, b) = "@"
    THEN (LET q == SpanEndNot(t, b + 1, {"@"})
          IN IF q > b + 1 /\ CharAt(t, q) = "@" /\ CharAt(t, q + 1) = " "
               THEN q + 2 ELSE 0)
    ELSE IF CharAt(t, b) \in WordChars THEN b ELSE 0

\* group 4, ( [^\n\r]*|\b), at d, the end of the longest run of word
\* characters: a space and the rest of the line, else \b, which holds there.
DataEnd(t, d) ==
  IF CharAt(t, d) = " " THEN SpanEndNot(t, d + 1, LineEndChars) ELSE d

\* the regular expression of parse, tried at start position s; at is where
\* group 2 begins, end is where the match ends
MatchAt(t, s) ==
  LET a == SpanEnd(t, s, SpaceChars)
      e == LevelEnd(t, a)
      b == e + 1
      c == IF e = 0 THEN 0 ELSE PointerEnd(t, b)
      d == IF c = 0 THEN 0 ELSE SpanEnd(t, c, WordChars)
      f == IF d = 0 THEN 0 ELSE DataEnd(t, d)
  IN IF e = 0 \/ c = 0 \/ d = c
       THEN NoMatch
       ELSE [ok |-> TRUE, at |-> b, end |-> f, level |-> Sub(t, a, e),
             pointer |-> Sub(t, b, c), tag |-> Sub(t, c, d),
             data |-> Sub(t, d, f)]

RECURSIVE NextMatch(_, _)
\* captures_iter: the leftmost match that starts at or after from
NextMatch(t, from) ==
  IF from > Len(t) THEN NoMatch
  ELSE LET m == MatchAt(t, from)
       IN IF m.ok THEN m ELSE NextMatch(t, from + 1)

\* str::trim
Trim(s) ==
  LET keep == {k \in 1..Len(s) : s[k] \notin SpaceChars}
  IN IF keep = {} THEN <<>>
     ELSE SubSeq(s, CHOOSE k \in keep : \A u \in keep : k <= u,
                    CHOOSE k \in keep : \A u \in keep : k >= u)

MaxI32 == 2147483647

RECURSIVE ParseAcc(_, _, _)
\* the digit loop of <i32 as FromStr>::from_str: acc * 10 + digit, checked
ParseAcc(s, k, acc) ==
  IF k > Len(s) THEN [ok |-> TRUE, val |-> acc]
  ELSE IF acc > (MaxI32 - DigitVal(s[k])) \div 10
    THEN [ok |-> FALSE, val |-> 0]
    ELSE ParseAcc(s, k + 1, acc * 10 + DigitVal(s[k]))

\* a variant of ParseI32: the conversion wraps instead of failing
ParseI32Wrapping(s) ==
  [ok |-> TRUE,
   val |-> IF ParseAcc(s, 1, 0).ok THEN ParseAcc(s, 1, 0).val ELSE 0]

\* cap.get(1).unwrap().as_str().parse::<i32>() on a string of digits
ParseI32(s) == ParseAcc(s, 1, 0)

-----------------------------------------------------------------------------
(* Nodes.                                                                  *)

\* Node::new(level, tag, data, pointer); the children field is children[i]
NewNode(level, tag, data, pointer) ==
  [data |-> data, tag |-> tag, pointer |-> pointer, level |-> level]

\* a variant of dummy_root: the root is given the level of a top record
DummyRootAtLevelZero == NewNode(0, <<"d", "u", "m", "m", "y">>, <<>>, <<>>)

\* let mut dummy_root = Node::new(-1, "dummy", "", "")
dummy_root == NewNode(-1, <<"d", "u", "m", "m", "y">>, <<>>, <<>>)

\* the node behind reference i: 0 is &dummy_root, i > 0 is &all_nodes[i]
NodeAt(nodes, i) == IF i = 0 THEN dummy_root ELSE nodes[i]

Level(i) == NodeAt(all_nodes, i).level

-----------------------------------------------------------------------------
(* serde_json::to_string_pretty, by the derived Serialize of Node.         *)

RECURSIVE Indent(_)
\* PrettyFormatter's indent: two spaces per depth
Indent(k) == IF k = 0 THEN <<>> ELSE <<" ", " ">> \o Indent(k - 1)

EscapeChar(c) ==
  CASE c = "\"" -> <<"\\", "\"">>
    [] c = "\\" -> <<"\\", "\\">>
    [] c = "\n" -> <<"\\", "n">>
    [] c = "\r" -> <<"\\", "r">>
    [] c = "\t" -> <<"\\", "t">>
    [] c = "\f" -> <<"\\", "f">>
    [] OTHER -> <<c>>

RECURSIVE Escape(_)
Escape(s) == IF s = <<>> THEN <<>> ELSE EscapeChar(Head(s)) \o Escape(Tail(s))

\* a JSON string
JsonStr(s) == <<"\"">> \o Escape(s) \o <<"\"">>

RECURSIVE NatStr(_)
NatStr(n) ==
  IF n < 10 THEN <<DigitChar(n)>>
  ELSE NatStr(n \div 10) \o <<DigitChar(n % 10)>>

\* a JSON number from an i32
JsonInt(n) == IF n < 0 THEN <<"-">> \o NatStr(0 - n) ELSE NatStr(n)

\* one member of an object at depth k:  "key": value
Member(k, key, value) == Indent(k) \o JsonStr(key) \o <<":", " ">> \o value

RECURSIVE SerNode(_, _, _, _)
RECURSIVE SerElems(_, _, _, _, _)
RECURSIVE SerArray(_, _, _, _)

\* the array of node references list, which stands at depth k
SerArray(nodes, ch, list, k) ==
  IF list = <<>> THEN <<"[", "]">>
  ELSE <<"[">> \o SerElems(nodes, ch, list, 1, k + 1)
         \o <<"\n">> \o Indent(k) \o <<"]">>

\* the elements j.. of list, each on its own line at depth k
SerElems(nodes, ch, list, j, k) ==
  IF j > Len(list) THEN <<>>
  ELSE (IF j = 1 THEN <<"\n">> ELSE <<",", "\n">>)
         \o Indent(k) \o SerNode(nodes, ch, list[j], k)
         \o SerElems(nodes, ch, list, j + 1, k)

\* the object of node i, which stands at depth k; the fields in the order
\* of the struct: data, tag, pointer, level, children
SerNode(nodes, ch, i, k) ==
  LET n == NodeAt(nodes, i)
  IN <<"{", "\n">>
       \o Member(k + 1, <<"d", "a", "t", "a">>, JsonStr(n.data))
       \o <<",", "\n">>
       \o Member(k + 1, <<"t", "a", "g">>, JsonStr(n.tag))
       \o <<",", "\n">>
       \o Member(k + 1, <<"p", "o", "i", "n", "t", "e", "r">>,
                 JsonStr(n.pointer))
       \o <<",", "\n">>
       \o Member(k + 1, <<"l", "e", "v", "e", "l">>, JsonInt(n.level))
       \o <<",", "\n">>
       \o Member(k + 1, <<"c", "h", "i", "l", "d", "r", "e", "n">>,
                 SerArray(nodes, ch, ch[i], k + 1))
       \o <<"\n">> \o Indent(k) \o <<"}">>

\* serde_json::to_string_pretty(&dummy_root.children)
ToStringPretty(nodes, ch) == SerArray(nodes, ch, ch[0], 0)

-----------------------------------------------------------------------------
(* Inputs.                                                                 *)

\* the number of lines of the input file
MaxLines == 4

\* the lines an input file is made of
Lines ==
  { <<"0", " ", "H", "\n">>,
    <<"1", " ", "N", " ", "d", " ", "\n">>,
    <<"1", " ", "@", "S", "@", " ", "M", "\n">>,
    <<"2", " ", "F", "\n">>,
    <<"9", "9", "9", "9", "9", "9", "9", "9", "9", "9", " ", "X", "\n">>,
    <<"1", " ", "@", "S", " ", "M", "\n">> }

RECURSIVE TextsOfLines(_)
TextsOfLines(k) ==
  IF k = 0 THEN {<<>>}
  ELSE {t \o l : t \in TextsOfLines(k - 1), l \in Lines}

Texts == UNION {TextsOfLines(k) : k \in 0..MaxLines}

\* what a path with no file behind it maps to (no text is this sequence)
NoFile == <<"NoFile">>

Paths == {"in.ged", "missing.ged", "out.json", "test.txt"}

\* the command lines: too few arguments, an input file that is there, and
\* one that is not
ArgChoices ==
  { <<"gedcom", "in.ged">>,
    <<"gedcom", "in.ged", "out.json">>,
    <<"gedcom", "missing.ged", "out.json">> }

NoConfig == [input_filename |-> "", output_filename |-> ""]

-----------------------------------------------------------------------------
(* The program.                                                            *)

Init ==
  /\ pc = "main"
  /\ args = <<>>
  /\ config = NoConfig
  /\ \E t \in Texts :
       fs = [p \in Paths |-> IF p = "in.ged" THEN t ELSE NoFile]
  /\ contents = <<>>
  /\ pos = 1
  /\ all_nodes = <<>>
  /\ children = [i \in {0} |-> <<>>]
  /\ stack = <<>>
  /\ iter = 0
  /\ node = 0
  /\ popped = 0
  /\ serialized = <<>>
  /\ stdout = <<>>
  /\ exitCode = -1

\* process::exit(code), or main returning (code 0)
Exit(code, out) ==
  /\ pc' = "exit"
  /\ exitCode' = code
  /\ stdout' = stdout \o out

\* main: env::args().collect()
Main ==
  /\ pc = "main"
  /\ \E a \in ArgChoices : args' = a
  /\ pc' = "config"
  /\ UNCHANGED <<config, fs, contents, pos, all_nodes, children, stack, iter,
                 node, popped, serialized, stdout, exitCode>>

\* Config::new(&args) and main's unwrap_or_else
ConfigNew ==
  /\ pc = "config"
  /\ IF Len(args) < 3
       THEN /\ Exit(1, <<"Problem parsing arguments: not enough arguments">>)
            /\ UNCHANGED config
       ELSE /\ config' = [input_filename |-> args[2],
                          output_filename |-> args[3]]
            /\ pc' = "run"
            /\ UNCHANGED <<stdout, exitCode>>
  /\ UNCHANGED <<args, fs, contents, pos, all_nodes, children, stack, iter,
                 node, popped, serialized>>

\* run: fs::read_to_string(config.input_filename)?, then parse begins
RunRead ==
  /\ pc = "run"
  /\ IF fs[config.input_filename] = NoFile
       THEN /\ Exit(1, <<"Parsing error: read">>)
            /\ UNCHANGED <<contents, pos>>
       ELSE /\ contents' = fs[config.input_filename]
            /\ pos' = 1
            /\ pc' = "tokenize"
            /\ UNCHANGED <<stdout, exitCode>>
  /\ UNCHANGED <<args, config, fs, all_nodes, children, stack, iter, node,
                 popped, serialized>>

\* the pointer of a record: cap.get(2).map_or("", |m| m.as_str())
PointerOf(m) == m.pointer

\* parse: one turn of  for cap in re.captures_iter(contents)
Tokenize ==
  /\ pc = "tokenize"
  /\ \E m \in {NextMatch(contents, pos)} :
       IF m.ok
         THEN \E lv \in {ParseI32(m.level)} :
                IF lv.ok
                  THEN /\ all_nodes' =
                            Append(all_nodes,
                                   NewNode(lv.val, m.tag, Trim(m.data),
                                           PointerOf(m)))
                       /\ children' =
                            [i \in 0..(Len(all_nodes) + 1) |->
                               IF i <= Len(all_nodes) THEN children[i]
                               ELSE <<>>]
                       /\ pos' = m.end
                       /\ UNCHANGED <<pc, stdout, exitCode>>
                  ELSE /\ Exit(1, <<"Parsing error: level">>)
                       /\ UNCHANGED <<all_nodes, children, pos>>
         ELSE /\ pc' = "build_tree"
              /\ UNCHANGED <<all_nodes, children, pos, stdout, exitCode>>
  /\ UNCHANGED <<args, config, fs, contents, stack, iter, node, popped,
                 serialized>>

\* build_tree: stack.push(dummy_root), iter = ordered_nodes.iter_mut()
BuildTree ==
  /\ pc = "build_tree"
  /\ stack' = <<0>>
  /\ iter' = 0
  /\ pc' = "iter"
  /\ UNCHANGED <<args, config, fs, contents, pos, all_nodes, children, node,
                 popped, serialized, stdout, exitCode>>

\* a variant of UnwindCond: a node of the same level is not unwound
UnwindCondStrict(p, n) == Level(p) > Level(n)

\* popped.level >= node.level
UnwindCond(p, n) == Level(p) >= Level(n)

\* a variant of AttachCond: any shallower candidate becomes the parent
AttachCondShallower(p, n) == Level(p) <= Level(n) - 1

\* popped.level == node.level - 1  (levels are at least -1: no overflow)
AttachCond(p, n) == Level(p) = Level(n) - 1

\* a variant of PushChild: the node is pushed under the root as well
PushChildAlsoRoot(ch, p, n) ==
  [i \in DOMAIN ch |->
     IF i = p \/ i = 0 THEN Append(ch[i], n) ELSE ch[i]]

\* a variant of PushChild: the node is put in front of its siblings
PushChildFront(ch, p, n) == [ch EXCEPT ![p] = <<n>> \o @]

\* popped.children.borrow_mut().push(node)
PushChild(ch, p, n) == [ch EXCEPT ![p] = Append(@, n)]

\* a variant of PushBack: a node that was not attached is not kept
PushBackAttachedOnly(st, p, n) ==
  IF Level(p) = Level(n) - 1 THEN st \o <<p, n>> ELSE st \o <<p>>

\* stack.push(popped); stack.push(node)
PushBack(st, p, n) == st \o <<p, n>>

\* while let Some(node) = iter.next(), then  let popped = stack.pop()
IterNext ==
  /\ pc = "iter"
  /\ IF iter = Len(all_nodes)
       THEN /\ pc' = "serialize"
            /\ UNCHANGED <<stack, iter, node, popped>>
       ELSE /\ iter' = iter + 1
            /\ node' = iter + 1
            /\ IF stack = <<>>
                 THEN /\ pc' = "iter"
                      /\ UNCHANGED <<stack, popped>>
                 ELSE /\ popped' = stack[Len(stack)]
                      /\ stack' = SubSeq(stack, 1, Len(stack) - 1)
                      /\ pc' = "while"
  /\ UNCHANGED <<args, config, fs, contents, pos, all_nodes, children,
                 serialized, stdout, exitCode>>

\* the body of  while popped.level >= node.level:
\* popped = stack.pop().unwrap(), which panics on an empty stack
Unwind ==
  /\ pc = "while"
  /\ UnwindCond(popped, node)
  /\ IF stack = <<>>
       THEN /\ pc' = "exit"
            /\ exitCode' = 101
            /\ stdout' = stdout
            /\ UNCHANGED <<stack, popped>>
       ELSE /\ popped' = stack[Len(stack)]
            /\ stack' = SubSeq(stack, 1, Len(stack) - 1)
            /\ UNCHANGED <<pc, stdout, exitCode>>
  /\ UNCHANGED <<args, config, fs, contents, pos, all_nodes, children, iter,
                 node, serialized>>

\* the loop is left: the child is pushed if the levels fit, then
\* stack.push(popped) and stack.push(node)
Attach ==
  /\ pc = "while"
  /\ ~UnwindCond(popped, node)
  /\ children' = IF AttachCond(popped, node)
                   THEN PushChild(children, popped, node)
                   ELSE children
  /\ stack' = PushBack(stack, popped, node)
  /\ pc' = "iter"
  /\ UNCHANGED <<args, config, fs, contents, pos, all_nodes, iter, node,
                 popped, serialized, stdout, exitCode>>

\* parse: serde_json::to_string_pretty(&dummy_root.children) and println!
Serialize ==
  /\ pc = "serialize"
  /\ serialized' = ToStringPretty(all_nodes, children)
  /\ stdout' = Append(stdout, "serialized json")
  /\ pc' = "write"
  /\ UNCHANGED <<args, config, fs, contents, pos, all_nodes, children, stack,
                 iter, node, popped, exitCode>>

\* the file parse writes to
WritePath(c) == "test.txt"

\* parse: fs::write("test.txt", serialized)?, which the system may refuse;
\* then run and main return
Write ==
  /\ pc = "write"
  /\ \E ok \in BOOLEAN :
       IF ok
         THEN /\ fs' = [fs EXCEPT ![WritePath(config)] = serialized]
              /\ Exit(0, <<>>)
         ELSE /\ Exit(1, <<"Parsing error: write">>)
              /\ UNCHANGED fs
  /\ UNCHANGED <<args, config, contents, pos, all_nodes, children, stack,
                 iter, node, popped, serialized>>

Next ==
  \/ Main
  \/ ConfigNew
  \/ RunRead
  \/ Tokenize
  \/ BuildTree
  \/ IterNext
  \/ Unwind
  \/ Attach
  \/ Serialize
  \/ Write

Spec == Init /\ [][Next]_vars

\* the steps of build_tree
BuildStep == BuildTree \/ IterNext \/ Unwind \/ Attach

\* build_tree is straight-line code on one thread: once called it runs on
FairSpec == Spec /\ WF_vars(BuildStep)

-----------------------------------------------------------------------------
(* Definitions the properties are stated with.                             *)

Range(s) == {s[k] : k \in 1..Len(s)}

RECURSIVE MatchesFrom(_, _)
\* every match captures_iter yields on t from position from on, in order
MatchesFrom(t, from) ==
  LET m == NextMatch(t, from)
  IN IF m.ok THEN <<m>> \o MatchesFrom(t, m.end) ELSE <<>>

AllMatches == MatchesFrom(contents, 1)

\* the position of the first @ behind position b
ClosingAt(t, b) ==
  CHOOSE q \in (b + 1)..Len(t) :
    t[q] = "@" /\ \A k \in (b + 1)..(q - 1) : t[k] # "@"

MaxI32Digits == <<"2", "1", "4", "7", "4", "8", "3", "6", "4", "7">>

\* the digit string s (no leading zero) denotes a value above 2^31 - 1
DigitsExceedI32(s) ==
  \/ Len(s) > Len(MaxI32Digits)
  \/ /\ Len(s) = Len(MaxI32Digits)
     /\ \E k \in 1..Len(s) :
          /\ DigitVal(s[k]) > DigitVal(MaxI32Digits[k])
          /\ \A j \in 1..(k - 1) : s[j] = MaxI32Digits[j]

\* build_tree has returned
Built == pc \in {"serialize", "write"} \/ (pc = "exit" /\ serialized # <<>>)

\* the records build_tree has dealt with: all up to iter, but for the one
\* its loop body is at
Processed == IF pc = "while" THEN iter - 1 ELSE iter

\* the nodes that have record i among their children
ParentsOf(i) == {p \in DOMAIN children : i \in Range(children[p])}

RECURSIVE Descendants(_)
\* node i and everything below it
Descendants(i) ==
  {i} \cup UNION {Descendants(children[i][k]) : k \in 1..Len(children[i])}

RECURSIVE PreorderOfList(_)
RECURSIVE Preorder(_)
\* node i, then its subtrees from left to right
Preorder(i) == <<i>> \o PreorderOfList(children[i])

PreorderOfList(list) ==
  IF list = <<>> THEN <<>>
  ELSE Preorder(Head(list)) \o PreorderOfList(Tail(list))

\* the output forest in pre-order
ForestOrder == PreorderOfList(children[0])

TagsOf(list) == [k \in 1..Len(list) |-> all_nodes[list[k]].tag]

RECURSIVE InOrderWhere(_, _)
\* the records 1..k that are in S, in document order
InOrderWhere(S, k) ==
  IF k = 0 THEN <<>>
  ELSE IF k \in S THEN Append(InOrderWhere(S, k - 1), k)
       ELSE InOrderWhere(S, k - 1)

Records == 1..Len(all_nodes)

\* the nearest record before r that is shallower than r, or the root
NearestShallower(r) ==
  LET before == {j \in 1..(r - 1) : Level(j) < Level(r)}
  IN IF before = {} THEN 0
     ELSE CHOOSE j \in before : \A u \in before : u <= j

\* the number of objects in a JSON text with no brace inside its strings
ObjectCount(text) == Cardinality({k \in 1..Len(text) : text[k] = "{"})

-----------------------------------------------------------------------------
(* C1: when run succeeds, the file at config.output_filename holds the     *)
(* pretty-printed JSON of the root's children.                             *)
OutputAtConfiguredPath ==
  (pc = "exit" /\ exitCode = 0) =>
    fs[config.output_filename] = ToStringPretty(all_nodes, children)

(* C2: the pointer of a record is the text from the opening @ to the       *)
(* closing @ of its line, both included, and the empty string when the     *)
(* line has no pointer token.                                              *)
PointerIsDelimitedToken ==
  LET ms == AllMatches
  IN \A i \in Records :
    LET m == ms[i]
    IN IF contents[m.at] = "@"
         THEN all_nodes[i].pointer =
                Sub(contents, m.at, ClosingAt(contents, m.at) + 1)
         ELSE all_nodes[i].pointer = <<>>

(* C3: at every step, every node in a children list has the level of the  *)
(* node that holds the list plus 1, the root (level -1) included.          *)
ChildLevelIsParentPlusOne ==
  \A p \in DOMAIN children :
    \A k \in 1..Len(children[p]) : Level(children[p][k]) = Level(p) + 1

ChildLevelWitness ==
  /\ pc = "while"
  /\ children[0] # <<>>
  /\ \E p \in Records : Len(children[p]) >= 2

(* C4 as stated: the tags of the output forest in pre-order are the tags   *)
(* of the records that are a child of some node, in document order.        *)
PreorderIsAttachedOrder ==
  Built =>
    TagsOf(ForestOrder) =
      TagsOf(InOrderWhere({i \in Records : ParentsOf(i) # {}},
                          Len(all_nodes)))

(* C4 amended: the tags of the output forest in pre-order are the tags of  *)
(* the records below the root (a child of the root, or a child of such a   *)
(* record, and so on), in document order.                                  *)
PreorderIsReachableOrder ==
  Built =>
    TagsOf(ForestOrder) =
      TagsOf(InOrderWhere(Descendants(0) \ {0}, Len(all_nodes)))

PreorderWitness ==
  /\ Built
  /\ \E p \in Range(children[0]) : children[p] # <<>>
  /\ \E i \in Records : ParentsOf(i) = {} /\ children[i] # <<>>

(* C5: when the level token of a matched line is above 2^31 - 1, the run   *)
(* fails at that line: neither its record nor a later one is made, the    *)
(* tree is not built, nothing is serialized, no file is written and the    *)
(* exit status is not 0.                                                   *)
LevelOverflowAborts ==
  LET ms == AllMatches
  IN \A k \in 1..Len(ms) :
    DigitsExceedI32(ms[k].level) =>
      /\ Len(all_nodes) < k
      /\ pc \in {"tokenize", "exit"}
      /\ pc = "exit" => exitCode # 0
      /\ stack = <<>>
      /\ \A i \in DOMAIN children : children[i] = <<>>
      /\ serialized = <<>>
      /\ \A p \in Paths \ {"in.ged"} : fs[p] = NoFile

LevelOverflowWitness ==
  /\ pc = "exit"
  /\ LET ms == AllMatches
     IN \E k \in 2..(Len(ms) - 1) :
          /\ DigitsExceedI32(ms[k].level)
          /\ Len(all_nodes) = k - 1

(* C6: build_tree comes to its end having taken every record once; at the *)
(* start of every turn of its loop the stack is not empty and has the root *)
(* at its bottom, and the unwinding never pops an empty stack.             *)
BuildStackOk ==
  /\ pc = "iter" => (stack # <<>> /\ stack[1] = 0)
  /\ pc = "while" =>
       /\ node = iter
       /\ IF stack = <<>> THEN popped = 0 ELSE stack[1] = 0
       /\ UnwindCond(popped, node) => stack # <<>>
  /\ exitCode # 101
  /\ Built => iter = Len(all_nodes)

BuildTreeTerminates ==
  /\ []BuildStackOk
  /\ (pc = "build_tree") ~> (pc = "serialize")

BuildTreeWitness ==
  /\ pc = "serialize"
  /\ Len(all_nodes) >= 3
  /\ stack = <<0, Len(all_nodes)>>

(* C7: at every step the root's children are the records of level 0 dealt  *)
(* with so far, in document order.                                         *)
RootChildrenAreLevelZero ==
  children[0] = InOrderWhere({i \in Records : Level(i) = 0}, Processed)

RootChildrenWitness ==
  /\ Built
  /\ children[0] = <<2, 4>>

(* C8: a record r of level L is a child of the nearest shallower record   *)
(* before it (or of the root) when that one has level L - 1, behind the    *)
(* children attached earlier, and of no other node; else of no node.       *)
AttachedToNearestShallower ==
  \A r \in 1..Processed :
    LET p == NearestShallower(r)
    IN /\ ParentsOf(r) = IF Level(p) = Level(r) - 1 THEN {p} ELSE {}
       /\ \A q \in ParentsOf(r) :
            \A k, l \in 1..Len(children[q]) :
              (children[q][k] = r /\ l < k) => children[q][l] < r

AttachedWitness ==
  /\ Built
  /\ \E r \in Records :
       /\ NearestShallower(r) \notin {0, r - 1}
       /\ ParentsOf(r) # {}
       /\ Len(children[NearestShallower(r)]) >= 2
  /\ \E r \in Records : ParentsOf(r) = {} /\ NearestShallower(r) # 0

(* C9: a record attached to no node is still on the stack: the next record *)
(* becomes its child when it is one level deeper, and the record with all  *)
(* below it is not below the root and not in the serialized output.        *)
OrphanSubtreeHidden ==
  Built =>
    /\ \A i \in Records :
         ParentsOf(i) = {} =>
           /\ (i < Len(all_nodes) /\ Level(i + 1) = Level(i) + 1)
                => ParentsOf(i + 1) = {i}
           /\ Descendants(i) \cap Descendants(0) = {}
    /\ pc # "serialize" =>
         ObjectCount(serialized) = Cardinality(Descendants(0) \ {0})

OrphanWitness ==
  /\ pc = "exit"
  /\ exitCode = 0
  /\ children[0] # <<>>
  /\ \E i \in Records : ParentsOf(i) = {} /\ children[i] # <<>>

(* C10: at every step a record is in at most one place of all children     *)
(* lists together, and the root is in none.                                *)
NoSharedChild ==
  \A p, q \in DOMAIN children :
    \A k \in 1..Len(children[p]) :
      /\ children[p][k] # 0
      /\ \A l \in 1..Len(children[q]) :
           (p # q \/ k # l) => children[p][k] # children[q][l]

NoSharedChildWitness ==
  /\ pc = "while"
  /\ Len(children[0]) >= 2
  /\ \E p \in Records : children[p] # <<>>

=============================================================================
